---- MODULE Spec2Model ----
\* photog: the request handlers of the photo gallery (upload, fetch, list,
\* delete, ip) and their admin gate, over an R2 bucket modelled as a
\* key -> object map; and the pages and components of its front end (Upload,
\* the photo page, the admin page, PhotoCard, PhotoGrid), each under a
\* specification of its own.
\*
\* Strings the code takes apart (header values, ADMIN_IP_LIST, file names,
\* keys) are sequences of one-character strings; an optional value (a header
\* that may be missing, an environment entry that may be undefined) is a
\* record [set, val].
EXTENDS Integers, Sequences, FiniteSets, TLC

VARIABLES
    env,        \* platform.env: ADMIN_IP_LIST (optional string), PHOTOS (bound or not)
    store,      \* the bucket: key -> [body, contentType]
    pc,         \* per request slot: where its handler is suspended
    req,        \* per request slot: the request being handled
    calls,      \* per request slot: the bucket calls the handler has made
    last,       \* the request the latest step completed, with its response
    nextUuid,   \* number of crypto.randomUUID() results handed out
    started,    \* number of requests received
    serial,     \* TRUE: the platform hands over one request at a time
    uploaded,   \* key -> bytes and declared type of the upload answered with it
    everPut,    \* key -> number of times it became Present
    okDeletes,  \* key -> number of DELETE requests answered 200
    gate,       \* one evaluation of the admin gate and of /api/ip on arbitrary strings
    keygen,     \* one generation of an upload key from an arbitrary file name
    uploadUi,   \* the Upload component: its variables and its batches in progress
    viewer,     \* the photo page: zoom, pan, drag, focus, where the browser is
    adminUi,    \* the admin page: photoList, deletingKey, DELETE requests in flight
    card,       \* the PhotoCards on the page, imageCacheStore, their fetches in flight
    grid        \* the PhotoGrid instance on the page, photoStore, list requests in flight

vars == <<env, store, pc, req, calls, last, nextUuid, started, serial,
          uploaded, everPut, okDeletes, gate, keygen,
          uploadUi, viewer, adminUi, card, grid>>

\* The state of the handlers and the state of the pages.
handlerVars == <<env, store, pc, req, calls, last, nextUuid, started, serial,
                 uploaded, everPut, okDeletes, gate, keygen>>
uiVars == <<uploadUi, viewer, adminUi, card, grid>>

\* ------------------------------------------------------------------ bounds

MaxProcs == 2
MaxRequests == 3
MaxListLen == 4
MaxIpLen == 2
MaxNameLen == 3
\* Batches one Upload component is asked to send.
MaxBatches == 2
\* The pan offset stays within -MaxPan..MaxPan pixels, pointers within 0..MaxPan.
MaxPan == 1
\* Requests the admin page sends, and the keys its list can hold.
MaxAdminRequests == 4
MaxAdminKeys == 2
\* Image fetches one PhotoCard is followed through.
MaxFetches == 2
MaxCards == 2
\* Times the PhotoGrid is mounted in one session.
MaxMounts == 3
\* The grid's batchSize prop (12 by default), scaled to the lists used here.
batchSize == 2
\* The most objects one bucket.list() call returns (R2's is 1000).
ListLimit == 1

\* ----------------------------------------------------------------- strings

None == [set |-> FALSE, val |-> <<>>]
Some(s) == [set |-> TRUE, val |-> s]

\* What String.prototype.trim removes (the members that occur in the model).
WhiteSpace == {" ", "\t", "\n"}

Last(s) == s[Len(s)]

\* String.prototype.split with a one-character separator: the pieces between
\* separators, empty pieces included ("".split(",") is [""]).
RECURSIVE Split(_, _)
Split(s, sep) ==
    IF \E i \in 1..Len(s) : s[i] = sep
    THEN LET i == CHOOSE j \in 1..Len(s) :
                    /\ s[j] = sep
                    /\ \A m \in 1..(j - 1) : s[m] # sep
         IN <<SubSeq(s, 1, i - 1)>> \o Split(SubSeq(s, i + 1, Len(s)), sep)
    ELSE <<s>>

RECURSIVE TrimStart(_)
TrimStart(s) ==
    IF s # <<>> /\ s[1] \in WhiteSpace THEN TrimStart(Tail(s)) ELSE s

RECURSIVE TrimEnd(_)
TrimEnd(s) ==
    IF s # <<>> /\ Last(s) \in WhiteSpace
    THEN TrimEnd(SubSeq(s, 1, Len(s) - 1))
    ELSE s

Trim(s) == TrimEnd(TrimStart(s))

\* Array.prototype.includes on an array of strings.
Includes(arr, x) == \E i \in 1..Len(arr) : arr[i] = x

\* adminIpList.map(adminIp => adminIp.trim()).
MapTrim(arr) == [i \in 1..Len(arr) |-> Trim(arr[i])]

\* -------------------------------------------------------------- admin gate

\* The gate without the trim of the allowlist entries.
isAdminRequestNoTrim(ip, adminIpListEnv) ==
    IF ~ip.set \/ ip.val = <<>> \/ ~adminIpListEnv.set
    THEN FALSE
    ELSE Includes(Split(adminIpListEnv.val, ","), ip.val)

\* upload's isAdminRequest: ip is request.headers.get("cf-connecting-ip"),
\* adminIpListEnv is platform?.env?.ADMIN_IP_LIST.
isAdminRequest(ip, adminIpListEnv) ==
    IF ~ip.set \/ ip.val = <<>> \/ ~adminIpListEnv.set
    THEN FALSE
    ELSE Includes(MapTrim(Split(adminIpListEnv.val, ",")), ip.val)

\* delete's copy of isAdminRequest.
isAdminRequestDelete(ip, adminIpListEnv) ==
    IF ~ip.set \/ ip.val = <<>> \/ ~adminIpListEnv.set
    THEN FALSE
    ELSE Includes(MapTrim(Split(adminIpListEnv.val, ",")), ip.val)

\* GET /api/ip: the body of its response, always sent with status 200. The
\* allowlist is split at the commas and searched as it is.
Unknown == <<"u", "n", "k", "n", "o", "w", "n">>

ipGET(ipHeader, adminIpListEnv) ==
    IF ~ipHeader.set \/ ipHeader.val = <<>> \/ ~adminIpListEnv.set
    THEN [status |-> 200, ip |-> Unknown, isAdmin |-> FALSE]
    ELSE [status |-> 200, ip |-> ipHeader.val,
          isAdmin |-> Includes(Split(adminIpListEnv.val, ","), ipHeader.val)]

\* ----------------------------------------------------------------- values

\* A request slot is one invocation of a handler.
Procs == 1..MaxProcs

NoFile == [provided |-> FALSE, name |-> <<>>, size |-> 0, type |-> "", body |-> ""]
NoReq == [op |-> "none", ip |-> None, key |-> <<>>, file |-> NoFile]

\* What a store call can do other than return: the values it can throw. The
\* handlers' catch blocks look at whether the value is an Error and whether
\* it has a status property.
StoreErrors ==
    { [threw |-> TRUE, isError |-> TRUE,  hasStatus |-> FALSE, message |-> "R2 unavailable"],
      [threw |-> TRUE, isError |-> TRUE,  hasStatus |-> TRUE,  message |-> "R2 rejected"],
      [threw |-> TRUE, isError |-> FALSE, hasStatus |-> FALSE, message |-> ""] }
Returned == [threw |-> FALSE, isError |-> FALSE, hasStatus |-> FALSE, message |-> ""]
Outcomes == {Returned} \cup StoreErrors

\* A response: status, the text of its JSON message (the pieces of the
\* template string, in order), the key it carries, and for a fetched object
\* its bytes and Content-Type.
Resp(status, body) ==
    [status |-> status, body |-> body, key |-> <<>>, data |-> "", ctype |-> ""]
NoResp == Resp(0, <<>>)

Count(f, k) == IF k \in DOMAIN f THEN f[k] ELSE 0
Bump(f, k) == [x \in DOMAIN f \cup {k} |-> IF x = k THEN Count(f, k) + 1 ELSE f[x]]

\* ------------------------------------------------------------------ bucket

\* R2's put: the key holds the object, whatever it held before.
BucketPut(bucket, key, object) ==
    [k \in DOMAIN bucket \cup {key} |-> IF k = key THEN object ELSE bucket[k]]

\* R2's delete: the key holds nothing; no error when it held nothing.
BucketDelete(bucket, key) == [k \in DOMAIN bucket \ {key} |-> bucket[k]]

\* R2's get and head: the object under the key, or null.
NullObject == [found |-> FALSE, body |-> "", contentType |-> ""]
BucketGet(bucket, key) ==
    IF key \in DOMAIN bucket
    THEN [found |-> TRUE, body |-> bucket[key].body,
          contentType |-> bucket[key].contentType]
    ELSE NullObject
BucketHead(bucket, key) == BucketGet(bucket, key)

\* The keys of a set in the bucket's key order.
RECURSIVE KeyOrder(_)
KeyOrder(keys) ==
    IF keys = {} THEN <<>>
    ELSE LET k == CHOOSE x \in keys : TRUE
         IN <<k>> \o KeyOrder(keys \ {k})

\* R2's list without options: the first objects in key order, as many as
\* one call returns, and truncated when there are more.
BucketList(bucket) ==
    LET all == KeyOrder(DOMAIN bucket)
        n == IF Len(all) > ListLimit THEN ListLimit ELSE Len(all)
    IN [objects |-> [i \in 1..n |-> [key |-> all[i]]],
        truncated |-> Len(all) > ListLimit,
        delimitedPrefixes |-> <<>>]

\* ------------------------------------------------------------------ upload

MAX_FILE_SIZE_MB == 10
MAX_FILE_SIZE_BYTES == MAX_FILE_SIZE_MB * 1024 * 1024

validImageTypes == {"image/jpeg", "image/png", "image/webp"}

\* /^[a-zA-Z0-9]+$/ accepts a non-empty string of these characters.
AlphaNum ==
    { "a", "b", "c", "d", "e", "f", "g", "h", "i", "j", "k", "l", "m",
      "n", "o", "p", "q", "r", "s", "t", "u", "v", "w", "x", "y", "z",
      "A", "B", "C", "D", "E", "F", "G", "H", "I", "J", "K", "L", "M",
      "N", "O", "P", "Q", "R", "S", "T", "U", "V", "W", "X", "Y", "Z",
      "0", "1", "2", "3", "4", "5", "6", "7", "8", "9" }

UploadForbidden == Resp(403, <<"Forbidden: You are not authorized to upload files.">>)
UploadNoFile == Resp(400, <<"No file provided">>)
UploadTooLarge == Resp(400, <<"File size exceeds the limit of ", "10", "MB.">>)
UploadBadType ==
    Resp(400, <<"Invalid file type. Only JPEG, PNG, and WebP images are allowed.">>)
UploadConfigError == Resp(500, <<"File storage configuration error.">>)

\* The checks with the type check ahead of the size check.
UploadChecksTypeFirst(file, photos) ==
    IF ~file.provided THEN UploadNoFile
    ELSE IF file.type \notin validImageTypes THEN UploadBadType
    ELSE IF file.size > MAX_FILE_SIZE_BYTES THEN UploadTooLarge
    ELSE IF ~photos THEN UploadConfigError
    ELSE NoResp

\* The checks without the type check.
UploadChecksNoType(file, photos) ==
    IF ~file.provided THEN UploadNoFile
    ELSE IF file.size > MAX_FILE_SIZE_BYTES THEN UploadTooLarge
    ELSE IF ~photos THEN UploadConfigError
    ELSE NoResp

\* The checks with the size limit off by one.
UploadChecksSizeStrict(file, photos) ==
    IF ~file.provided THEN UploadNoFile
    ELSE IF file.size >= MAX_FILE_SIZE_BYTES THEN UploadTooLarge
    ELSE IF file.type \notin validImageTypes THEN UploadBadType
    ELSE IF ~photos THEN UploadConfigError
    ELSE NoResp

\* POST after formData(): the error thrown by the first check that fails, or
\* NoResp when the handler goes on to the try block.
UploadChecks(file, photos) ==
    IF ~file.provided THEN UploadNoFile
    ELSE IF file.size > MAX_FILE_SIZE_BYTES THEN UploadTooLarge
    ELSE IF file.type \notin validImageTypes THEN UploadBadType
    ELSE IF ~photos THEN UploadConfigError
    ELSE NoResp

\* The extension appended without the test of its characters.
safeExtensionUnchecked(name) ==
    LET fileExtension == Last(Split(name, "."))
    IN IF fileExtension # <<>> THEN <<".">> \o fileExtension ELSE <<>>

\* file.name.split('.').pop(), kept with its dot when the regex accepts it.
safeExtension(name) ==
    LET fileExtension == Last(Split(name, "."))
    IN IF fileExtension # <<>> /\ \A i \in 1..Len(fileExtension) : fileExtension[i] \in AlphaNum
       THEN <<".">> \o fileExtension
       ELSE <<>>

\* crypto.randomUUID(): the n-th identifier handed out; no two are equal.
randomUUID(n) == "uuid-" \o ToString(n)

\* A key made of the file's name instead of a fresh identifier.
uniqueKeyFromName(n, name) == name

\* `${crypto.randomUUID()}${safeExtension}`.
uniqueKey(n, name) == <<randomUUID(n)>> \o safeExtension(name)

\* put() without the httpMetadata.
PutObjectNoType(file) == [body |-> file.body, contentType |-> ""]

\* The object put() writes: the file's bytes, httpMetadata.contentType.
PutObject(file) == [body |-> file.body, contentType |-> file.type]

UploadOk(key) ==
    [Resp(200, <<"File uploaded successfully">>) EXCEPT !.key = key]

\* The catch block answering with a client error.
UploadCatch400(error) ==
    Resp(400, <<"Upload failed: ",
                IF error.isError THEN error.message
                ELSE "An unknown error occurred during upload.">>)

\* POST's catch block.
UploadCatch(error) ==
    Resp(500, <<"Upload failed: ",
                IF error.isError THEN error.message
                ELSE "An unknown error occurred during upload.">>)

\* ------------------------------------------------------------------ delete

DeleteForbidden == Resp(403, <<"Forbidden: You are not authorized to delete files.">>)
DeleteConfigError == Resp(500, <<"File storage configuration error.">>)
DeleteMissingKey == Resp(400, <<"Missing photo key in URL.">>)
DeleteNotFound(key) == Resp(404, <<"File not found: ">> \o key)
DeleteOk(key) == Resp(200, <<"File ">> \o key \o <<" deleted successfully.">>)

\* DELETE with the existence check left out.
DeleteHeadCheckNone(object, key) == NoResp

\* DELETE whose catch block turns the 404 it threw itself into a 500.
DeleteHeadCheckRewritten(object, key) ==
    IF ~object.found
    THEN Resp(500, <<"Deletion failed: ", "File not found">>)
    ELSE NoResp

\* DELETE after head(): the 404 thrown for null (the catch block throws it
\* on unchanged, it has a status), or NoResp when the handler goes on.
DeleteHeadCheck(object, key) ==
    IF ~object.found THEN DeleteNotFound(key) ELSE NoResp

\* What the framework answers when a handler throws a value that is not one
\* of its own HttpErrors.
UnexpectedError == Resp(500, <<"Internal Error">>)

\* DELETE's catch block for a value thrown by head() or delete(): a value
\* with a status property is thrown on as it is, any other becomes a 500.
DeleteCatch(error) ==
    IF error.hasStatus
    THEN UnexpectedError
    ELSE Resp(500, <<"Deletion failed: ",
                     IF error.isError THEN error.message
                     ELSE "An unknown error occurred during deletion.">>)

\* The gate without the admin check.
DeleteGateNoAuth(ip, key) ==
    IF ~env.PHOTOS THEN DeleteConfigError
    ELSE IF key = <<>> THEN DeleteMissingKey
    ELSE NoResp

\* The gate that looks for the bucket before it looks at the caller.
DeleteGateBucketFirst(ip, key) ==
    IF ~env.PHOTOS THEN DeleteConfigError
    ELSE IF ~isAdminRequestDelete(ip, env.ADMIN_IP_LIST) THEN DeleteForbidden
    ELSE IF key = <<>> THEN DeleteMissingKey
    ELSE NoResp

\* DELETE up to the try block: the error thrown, or NoResp.
DeleteGate(ip, key) ==
    IF ~isAdminRequestDelete(ip, env.ADMIN_IP_LIST) THEN DeleteForbidden
    ELSE IF ~env.PHOTOS THEN DeleteConfigError
    ELSE IF key = <<>> THEN DeleteMissingKey
    ELSE NoResp

\* ------------------------------------------------------------------- fetch

GetConfigError == Resp(500, <<"R2 not configured">>)
GetNotFound == Resp(404, <<"File not found">>)

\* The 200 response of GET /api/{key} for a stored object.
GetOk(object) ==
    [Resp(200, <<>>) EXCEPT
        !.data = object.body,
        !.ctype = IF object.contentType # "" THEN object.contentType
                  ELSE "application/octet-stream"]

\* GET after get(): the 404 for no object, else the object.
GetRespond(object) == IF ~object.found THEN GetNotFound ELSE GetOk(object)

\* A catch block that reports a store failure as a missing file.
GetCatchNotFound(error) == GetNotFound

\* GET's catch block: JSON.stringify({ error: error.message }).
GetCatch(error) == Resp(500, IF error.isError THEN <<error.message>> ELSE <<>>)

\* -------------------------------------------------------------------- list

\* A missing bucket answered like an empty one.
ListConfigErrorEmptyList == Resp(200, <<>>)

ListConfigError == Resp(500, <<"R2 not configured">>)

\* The 200 response of GET /api/list; its body is the array of {key} records.
ListOk == Resp(200, <<>>)

\* listResult.objects.map((object) => ({ key: object.key })).
ListKeys(listResult) ==
    [i \in 1..Len(listResult.objects) |-> [key |-> listResult.objects[i].key]]

\* A list answered as a failure when there is nothing to list.
ListRespondEmptyIsError(listResult) ==
    IF Len(listResult.objects) = 0
    THEN [resp |-> Resp(500, <<"No photos">>), keys |-> <<>>]
    ELSE [resp |-> ListOk, keys |-> ListKeys(listResult)]

\* What the handler answers once bucket.list has returned: the keys of
\* listResult.objects, which R2 always provides (the else branch answers []
\* with 200 as well).
ListRespond(listResult) ==
    [resp |-> ListOk, keys |-> ListKeys(listResult)]

\* GET /api/list's catch block: JSON.stringify({ error: error.message }).
ListCatch(error) == Resp(500, IF error.isError THEN <<error.message>> ELSE <<>>)

\* ------------------------------------------------------------------ inputs

\* The allowlists the deployment may be configured with: none, or "a, b"
\* (the second entry matches only once it is trimmed).
AdminLists == {None, Some(<<"a", ",", " ", "b">>)}

\* cf-connecting-ip of a request: missing, empty, listed, not listed. With
\* overlapping requests: listed, not listed.
Headers ==
    IF serial THEN {None, Some(<<>>), Some(<<"b">>), Some(<<"c">>)}
    ELSE {Some(<<"b">>), Some(<<"c">>)}

FileNames == {<<"p", ".", "j">>}
FileSizes == {MAX_FILE_SIZE_BYTES - 1, MAX_FILE_SIZE_BYTES, MAX_FILE_SIZE_BYTES + 1}
FileTypes == validImageTypes \cup {"image/gif", ""}
FileBodies == {"bytes-1", "bytes-2"}

File(name, size, type, body) ==
    [provided |-> TRUE, name |-> name, size |-> size, type |-> type, body |-> body]

\* The file field of the posted form: missing, or a File. When requests come
\* one at a time, every combination of size around the limit, type and
\* bytes; with overlapping requests two files that pass the checks (of
\* different names, bytes and types), one too large and one of a disallowed
\* type.
Files ==
    IF serial
    THEN {NoFile} \cup
         [provided : {TRUE}, name : FileNames, size : FileSizes, type : FileTypes,
          body : FileBodies]
    ELSE { NoFile,
           File(<<"p", ".", "j">>, MAX_FILE_SIZE_BYTES, "image/png", "bytes-1"),
           File(<<"p">>, MAX_FILE_SIZE_BYTES - 1, "image/jpeg", "bytes-2"),
           File(<<"p", ".", "j">>, MAX_FILE_SIZE_BYTES + 1, "image/png", "bytes-1"),
           File(<<"p", ".", "j">>, MAX_FILE_SIZE_BYTES, "image/gif", "bytes-2") }

\* A key no upload ever returned.
GhostKey == <<"no-such-key">>

\* The key in the path of a DELETE: one an upload generated, one that never
\* existed, or the empty string.
KeyParams == DOMAIN everPut \cup {GhostKey, <<>>}

\* ------------------------------------------------------------------- state

TypeOK ==
    /\ env \in [ADMIN_IP_LIST : AdminLists, PHOTOS : BOOLEAN]
    /\ pc \in [Procs -> {"idle", "upload_formData", "upload_put", "delete_head",
                         "delete_delete", "get_get", "list_list"}]
    /\ nextUuid \in 0..MaxRequests
    /\ started \in 0..MaxRequests
    /\ serial \in BOOLEAN
    /\ \A k \in DOMAIN store : store[k].contentType \in validImageTypes
    /\ DOMAIN store \subseteq DOMAIN uploaded

NoLast ==
    [op |-> "none", ip |-> None, key |-> <<>>, file |-> NoFile, resp |-> NoResp,
     calls |-> <<>>, wasPresent |-> FALSE, mutated |-> FALSE, keys |-> <<>>]

NoIpAnswer == [status |-> 0, ip |-> <<>>, isAdmin |-> FALSE]

NoGate ==
    [ip |-> None, list |-> None, done |-> FALSE, upload |-> FALSE, delete |-> FALSE,
     asked |-> FALSE, answer |-> NoIpAnswer]

NoKeygen == [name |-> <<>>, n |-> 0, done |-> FALSE, key |-> <<>>]

\* The Upload component as created (lines 8-18 of Upload.svelte).
NoUploadUi ==
    [selectedFiles |-> <<>>, isLoading |-> FALSE, overallUploadMessage |-> "null",
     batches |-> <<>>, started |-> 0]

\* The photo page as created.
NoViewer ==
    [page |-> "photo", focus |-> "body", zoomLevel |-> 100, isZoomed |-> FALSE,
     isDragging |-> FALSE, startX |-> 0, startY |-> 0, translateX |-> 0,
     translateY |-> 0, event |-> "none", wasZoomed |-> FALSE]

\* The admin page as created.
NoAdminUi ==
    [photoList |-> <<>>, listLoading |-> FALSE, listError |-> FALSE, listing |-> 0,
     deletingKey |-> 0, deleteError |-> FALSE, inFlight |-> <<>>, sent |-> 0]

\* A PhotoCard before it is mounted.
NoCard ==
    [key |-> "", mounted |-> FALSE, isLoaded |-> FALSE, isLoading |-> TRUE,
     observed |-> FALSE, cachedAtMount |-> FALSE, src |-> "", fetching |-> 0,
     fetches |-> 0]

\* No card on the page, imageCacheStore as created (stores.ts line 13).
NoCards == [cards |-> <<>>, cache |-> {}]

\* A PhotoGrid instance as created (PhotoGrid.svelte lines 10-18).
NoGridInstance ==
    [id |-> 0, mounted |-> FALSE, visiblePhotos |-> <<>>, currentIndex |-> 0,
     loading |-> FALSE, allLoaded |-> FALSE, photos |-> <<>>, storeLoaded |-> FALSE,
     revealed |-> 0]

\* No PhotoGrid on the page, photoStore as created (stores.ts lines 4-10),
\* no list request in flight.
NoGrid ==
    [inst |-> NoGridInstance,
     store |-> [photos |-> <<>>, loaded |-> FALSE],
     requests |-> <<>>, mounts |-> 0, sets |-> 0, first |-> <<>>,
     sentWhileLoaded |-> FALSE]

NoPages ==
    /\ uploadUi = NoUploadUi
    /\ viewer = NoViewer
    /\ adminUi = NoAdminUi
    /\ card = NoCards
    /\ grid = NoGrid

\* No request was ever received by the handlers.
NoRequests ==
    /\ env = [ADMIN_IP_LIST |-> None, PHOTOS |-> FALSE]
    /\ store = <<>>
    /\ pc = [p \in Procs |-> "idle"]
    /\ req = [p \in Procs |-> NoReq]
    /\ calls = [p \in Procs |-> <<>>]
    /\ last = NoLast
    /\ nextUuid = 0
    /\ started = 0
    /\ serial = TRUE
    /\ uploaded = <<>>
    /\ everPut = <<>>
    /\ okDeletes = <<>>
    /\ gate = NoGate
    /\ keygen = NoKeygen

\* A page or component as it is created, one at a time under its own
\* specification; the handlers are left aside.
InitPages == NoRequests /\ NoPages

InitWith(s) ==
    /\ env \in [ADMIN_IP_LIST : AdminLists, PHOTOS : BOOLEAN]
    /\ store = <<>>
    /\ pc = [p \in Procs |-> "idle"]
    /\ req = [p \in Procs |-> NoReq]
    /\ calls = [p \in Procs |-> <<>>]
    /\ last = NoLast
    /\ nextUuid = 0
    /\ started = 0
    /\ serial = s
    /\ uploaded = <<>>
    /\ everPut = <<>>
    /\ okDeletes = <<>>
    /\ gate = NoGate
    /\ keygen = NoKeygen
    /\ NoPages

\* Requests may overlap: a handler suspended at an await lets others run.
Init == InitWith(FALSE)

\* Requests arrive one after the other's response.
InitSerial == InitWith(TRUE)

\* A request can be taken up by the first free slot, while the bound on the
\* number of requests is not reached and, when serial, no other is in flight.
CanStart(p) ==
    /\ pc[p] = "idle"
    /\ \A q \in Procs : q < p => pc[q] # "idle"
    /\ started < MaxRequests
    /\ serial => \A q \in Procs : pc[q] = "idle"

\* Slot p's handler returns or throws: the response goes out and the slot is
\* free again. r is the request, c the store calls it made, after the
\* contents of the bucket once the step is taken.
\* A handler that starts over when a bucket call has thrown.
AnswerOrRetry(p, r, c, resp, after, keys) ==
    /\ store' = after
    /\ last' = [op |-> r.op, ip |-> r.ip, key |-> r.key, file |-> r.file,
                resp |-> resp, calls |-> c,
                wasPresent |-> r.key \in DOMAIN store,
                mutated |-> store' # store,
                keys |-> keys]
    /\ IF c # <<>> /\ c[Len(c)].threw /\ Len(c) < 3
       THEN pc' = pc /\ req' = req /\ calls' = [calls EXCEPT ![p] = c]
       ELSE /\ pc' = [pc EXCEPT ![p] = "idle"]
            /\ req' = [req EXCEPT ![p] = NoReq]
            /\ calls' = [calls EXCEPT ![p] = <<>>]

\* keys is the array in the body when the response is that of the list.
Answer(p, r, c, resp, after, keys) ==
    /\ store' = after
    /\ last' = [op |-> r.op, ip |-> r.ip, key |-> r.key, file |-> r.file,
                resp |-> resp, calls |-> c,
                wasPresent |-> r.key \in DOMAIN store,
                mutated |-> store' # store,
                keys |-> keys]
    /\ pc' = [pc EXCEPT ![p] = "idle"]
    /\ req' = [req EXCEPT ![p] = NoReq]
    /\ calls' = [calls EXCEPT ![p] = <<>>]

Complete(p, r, c, resp, after) == Answer(p, r, c, resp, after, <<>>)

\* Slot p's handler is suspended at an await.
Suspend(p, r, c, where) ==
    /\ store' = store
    /\ pc' = [pc EXCEPT ![p] = where]
    /\ req' = [req EXCEPT ![p] = r]
    /\ calls' = [calls EXCEPT ![p] = c]
    /\ last' = NoLast

\* The record of a bucket call: what was called, how it settled, and for a
\* head or get that returned, whether it returned an object.
Call(op, key, outcome) ==
    [op |-> op, key |-> key, threw |-> outcome.threw, isError |-> outcome.isError,
     hasStatus |-> outcome.hasStatus, message |-> outcome.message,
     found |-> ~outcome.threw /\ op \in {"head", "get"} /\ key \in DOMAIN store]

\* ----------------------------------------------------------------- actions

\* POST /api/upload arrives: the admin check, then await request.formData().
UploadStart(p) ==
    /\ CanStart(p)
    /\ \E ip \in Headers, file \in Files :
        LET r == [op |-> "upload", ip |-> ip, key |-> <<>>, file |-> file]
        IN IF ~isAdminRequest(ip, env.ADMIN_IP_LIST)
           THEN Complete(p, r, <<>>, UploadForbidden, store)
           ELSE Suspend(p, r, <<>>, "upload_formData")
    /\ started' = started + 1
    /\ UNCHANGED <<env, nextUuid, serial, uploaded, everPut, okDeletes, gate, keygen, uiVars>>

\* formData() resolved: the file checks, the bucket check, the key, and the
\* call of bucket.put.
UploadFormData(p) ==
    /\ pc[p] = "upload_formData"
    /\ LET r == req[p]
           v == UploadChecks(r.file, env.PHOTOS)
       IN IF v # NoResp
          THEN /\ Complete(p, r, calls[p], v, store)
               /\ nextUuid' = nextUuid
          ELSE /\ Suspend(p, [r EXCEPT !.key = uniqueKey(nextUuid + 1, r.file.name)],
                          calls[p], "upload_put")
               /\ nextUuid' = nextUuid + 1
    /\ UNCHANGED <<env, started, serial, uploaded, everPut, okDeletes, gate, keygen, uiVars>>

\* bucket.put settles: the object is written and the key returned, or the
\* value put threw goes to the catch block.
UploadPut(p) ==
    /\ pc[p] = "upload_put"
    /\ \E outcome \in Outcomes :
        LET r == req[p]
            c == Append(calls[p], Call("put", r.key, outcome))
        IN IF outcome.threw
           THEN /\ everPut' = everPut
                /\ uploaded' = uploaded
                /\ Complete(p, r, c, UploadCatch(outcome), store)
           ELSE /\ everPut' = IF r.key \in DOMAIN store THEN everPut
                              ELSE Bump(everPut, r.key)
                /\ uploaded' = BucketPut(uploaded, r.key,
                                        [body |-> r.file.body, type |-> r.file.type])
                /\ Complete(p, r, c, UploadOk(r.key), BucketPut(store, r.key, PutObject(r.file)))
    /\ UNCHANGED <<env, nextUuid, started, serial, okDeletes, gate, keygen, uiVars>>

\* DELETE /api/delete/{key} arrives: admin check, bucket check, key check,
\* and the call of bucket.head.
DeleteStart(p) ==
    /\ CanStart(p)
    /\ \E ip \in Headers, key \in KeyParams :
        LET r == [op |-> "delete", ip |-> ip, key |-> key, file |-> NoFile]
            v == DeleteGate(ip, key)
        IN IF v # NoResp
           THEN Complete(p, r, <<>>, v, store)
           ELSE Suspend(p, r, <<>>, "delete_head")
    /\ started' = started + 1
    /\ UNCHANGED <<env, nextUuid, serial, uploaded, everPut, okDeletes, gate, keygen, uiVars>>

\* bucket.head settles: null gives the 404, an object the call of
\* bucket.delete, a thrown value the catch block.
DeleteHead(p) ==
    /\ pc[p] = "delete_head"
    /\ \E outcome \in Outcomes :
        LET r == req[p]
            c == Append(calls[p], Call("head", r.key, outcome))
        IN IF outcome.threw
           THEN Complete(p, r, c, DeleteCatch(outcome), store)
           ELSE IF DeleteHeadCheck(BucketHead(store, r.key), r.key) # NoResp
           THEN Complete(p, r, c, DeleteHeadCheck(BucketHead(store, r.key), r.key), store)
           ELSE Suspend(p, r, c, "delete_delete")
    /\ UNCHANGED <<env, nextUuid, started, serial, uploaded, everPut, okDeletes, gate, keygen, uiVars>>

\* bucket.delete settles: the key is gone (it is no error if it already
\* was) and the handler answers 200, or the thrown value goes to the catch.
DeleteDelete(p) ==
    /\ pc[p] = "delete_delete"
    /\ \E outcome \in Outcomes :
        LET r == req[p]
            c == Append(calls[p], Call("delete", r.key, outcome))
        IN IF outcome.threw
           THEN /\ okDeletes' = okDeletes
                /\ Complete(p, r, c, DeleteCatch(outcome), store)
           ELSE /\ okDeletes' = Bump(okDeletes, r.key)
                /\ Complete(p, r, c, DeleteOk(r.key), BucketDelete(store, r.key))
    /\ UNCHANGED <<env, nextUuid, started, serial, uploaded, everPut, gate, keygen, uiVars>>

\* GET /api/{key} arrives: the bucket check and the call of bucket.get.
GetStart(p) ==
    /\ CanStart(p)
    /\ \E key \in KeyParams \ {<<>>} :
        LET r == [op |-> "get", ip |-> None, key |-> key, file |-> NoFile]
        IN IF ~env.PHOTOS
           THEN Complete(p, r, <<>>, GetConfigError, store)
           ELSE Suspend(p, r, <<>>, "get_get")
    /\ started' = started + 1
    /\ UNCHANGED <<env, nextUuid, serial, uploaded, everPut, okDeletes, gate, keygen, uiVars>>

\* bucket.get settles: no object gives the 404, an object the 200 with its
\* body and content type, a thrown value the 500.
GetGet(p) ==
    /\ pc[p] = "get_get"
    /\ \E outcome \in Outcomes :
        LET r == req[p]
            c == Append(calls[p], Call("get", r.key, outcome))
        IN IF outcome.threw
           THEN Complete(p, r, c, GetCatch(outcome), store)
           ELSE Complete(p, r, c, GetRespond(BucketGet(store, r.key)), store)
    /\ UNCHANGED <<env, nextUuid, started, serial, uploaded, everPut, okDeletes, gate, keygen, uiVars>>

\* GET /api/list arrives: the bucket check and the call of bucket.list.
ListStart(p) ==
    /\ CanStart(p)
    /\ LET r == [op |-> "list", ip |-> None, key |-> <<>>, file |-> NoFile]
       IN IF ~env.PHOTOS
          THEN Complete(p, r, <<>>, ListConfigError, store)
          ELSE Suspend(p, r, <<>>, "list_list")
    /\ started' = started + 1
    /\ UNCHANGED <<env, nextUuid, serial, uploaded, everPut, okDeletes, gate, keygen, uiVars>>

\* bucket.list settles: the keys of the objects it returned are answered
\* with 200 (the result always has its objects array), a thrown value with 500.
ListList(p) ==
    /\ pc[p] = "list_list"
    /\ \E outcome \in Outcomes :
        LET r == req[p]
            c == Append(calls[p], Call("list", <<>>, outcome))
        IN IF outcome.threw
           THEN Complete(p, r, c, ListCatch(outcome), store)
           ELSE LET answer == ListRespond(BucketList(store))
                IN Answer(p, r, c, answer.resp, store, answer.keys)
    /\ UNCHANGED <<env, nextUuid, started, serial, uploaded, everPut, okDeletes, gate, keygen, uiVars>>

Next ==
    \E p \in Procs :
        \/ UploadStart(p)
        \/ UploadFormData(p)
        \/ UploadPut(p)
        \/ DeleteStart(p)
        \/ DeleteHead(p)
        \/ DeleteDelete(p)
        \/ GetStart(p)
        \/ GetGet(p)
        \/ ListStart(p)
        \/ ListList(p)

Spec == Init /\ [][Next]_vars

SpecSerial == InitSerial /\ [][Next]_vars

\* ---------------------------------------------- the admin gate on its own

Strings(alphabet, n) == UNION {[1..k -> alphabet] : k \in 0..n}

\* Header values and allowlists over the characters the gate tells apart:
\* letters, the blank it trims and the comma it splits at.
GateIps == {None} \cup {Some(s) : s \in Strings({"a", "b", " "}, MaxIpLen)}
GateLists == {None} \cup {Some(s) : s \in Strings({"a", "b", " ", ","}, MaxListLen)}

InitGate ==
    /\ env = [ADMIN_IP_LIST |-> None, PHOTOS |-> FALSE]
    /\ store = <<>>
    /\ pc = [p \in Procs |-> "idle"]
    /\ req = [p \in Procs |-> NoReq]
    /\ calls = [p \in Procs |-> <<>>]
    /\ last = NoLast
    /\ nextUuid = 0
    /\ started = 0
    /\ serial = TRUE
    /\ uploaded = <<>>
    /\ everPut = <<>>
    /\ okDeletes = <<>>
    /\ gate \in [ip : GateIps, list : GateLists, done : {FALSE},
                 upload : {FALSE}, delete : {FALSE},
                 asked : {FALSE}, answer : {NoIpAnswer}]
    /\ keygen = NoKeygen
    /\ NoPages

\* Both handlers' gates are evaluated on the header value and the allowlist.
GateCheck ==
    /\ ~gate.done
    /\ gate' = [gate EXCEPT !.done = TRUE,
                            !.upload = isAdminRequest(gate.ip, gate.list),
                            !.delete = isAdminRequestDelete(gate.ip, gate.list)]
    /\ UNCHANGED <<env, store, pc, req, calls, last, nextUuid, started, serial,
                   uploaded, everPut, okDeletes, keygen, uiVars>>

\* GET /api/ip is answered for the same header value and allowlist.
IpGet ==
    /\ ~gate.asked
    /\ gate' = [gate EXCEPT !.asked = TRUE,
                            !.answer = ipGET(gate.ip, gate.list)]
    /\ UNCHANGED <<env, store, pc, req, calls, last, nextUuid, started, serial,
                   uploaded, everPut, okDeletes, keygen, uiVars>>

NextGate == GateCheck \/ IpGet

SpecGate == InitGate /\ [][NextGate]_vars

\* -------------------------------------------- key generation on its own

\* File names over the characters the key generation tells apart: letters
\* and digits, the dot it splits at and a path separator.
NameChars == {"a", "Z", "7", ".", "/"}

InitKey ==
    /\ env = [ADMIN_IP_LIST |-> None, PHOTOS |-> FALSE]
    /\ store = <<>>
    /\ pc = [p \in Procs |-> "idle"]
    /\ req = [p \in Procs |-> NoReq]
    /\ calls = [p \in Procs |-> <<>>]
    /\ last = NoLast
    /\ nextUuid = 0
    /\ started = 0
    /\ serial = TRUE
    /\ uploaded = <<>>
    /\ everPut = <<>>
    /\ okDeletes = <<>>
    /\ gate = NoGate
    /\ keygen \in [name : Strings(NameChars, MaxNameLen), n : 0..1,
                   done : {FALSE}, key : {<<>>}]
    /\ NoPages

\* The upload handler generates the key for the file's name.
KeyGenerate ==
    /\ ~keygen.done
    /\ keygen' = [keygen EXCEPT !.done = TRUE,
                                !.key = uniqueKey(keygen.n, keygen.name)]
    /\ UNCHANGED <<env, store, pc, req, calls, last, nextUuid, started, serial,
                   uploaded, everPut, okDeletes, gate, uiVars>>

NextKey == KeyGenerate

SpecKey == InitKey /\ [][NextKey]_vars

\* ------------------------------------------------- the Upload component

\* resetUploadStatus(): the fields of the component it assigns.
resetUploadStatus(u) == [u EXCEPT !.overallUploadMessage = "null", !.isLoading = FALSE]

\* The files of a FileList whose type the component accepts.
RECURSIVE ValidFiles(_)
ValidFiles(files) ==
    IF files = <<>> THEN <<>>
    ELSE IF Head(files).type \in validImageTypes
         THEN <<Head(files).name>> \o ValidFiles(Tail(files))
         ELSE ValidFiles(Tail(files))

\* updateSelectedFiles(files).
updateSelectedFiles(u, files) ==
    LET r == resetUploadStatus(u)
    IN IF files = <<>>
       THEN [r EXCEPT !.selectedFiles = <<>>]
       ELSE [r EXCEPT !.selectedFiles = ValidFiles(files),
                      !.overallUploadMessage =
                          IF Len(ValidFiles(files)) < Len(files) THEN "skipped" ELSE "null"]

\* selectedFiles.filter((_, index) => index !== indexToRemove).
RemoveAt(files, i) == SubSeq(files, 1, i - 1) \o SubSeq(files, i + 1, Len(files))

\* The file lists a user picks or drops.
UiFile(name, type) == [name |-> name, type |-> type]
UiFileLists ==
    { <<UiFile("f1", "image/png")>>,
      <<UiFile("f1", "image/png"), UiFile("f2", "image/jpeg")>>,
      <<UiFile("g", "image/gif"), UiFile("f2", "image/jpeg")>> }

\* The file input's change event; the input is disabled while isLoading.
handleFileSelect ==
    /\ ~uploadUi.isLoading
    /\ \E files \in UiFileLists \cup {<<>>} :
          uploadUi' = updateSelectedFiles(uploadUi, files)
    /\ UNCHANGED <<handlerVars, viewer, adminUi, card, grid>>

\* Files are dropped on the drop area.
handleDrop ==
    /\ \E files \in UiFileLists : uploadUi' = updateSelectedFiles(uploadUi, files)
    /\ UNCHANGED <<handlerVars, viewer, adminUi, card, grid>>

\* A click on the preview of the file at an index.
removeFile ==
    /\ \E indexToRemove \in 1..Len(uploadUi.selectedFiles) :
          LET u == [uploadUi EXCEPT
                       !.selectedFiles = RemoveAt(uploadUi.selectedFiles, indexToRemove)]
          IN uploadUi' = IF u.selectedFiles = <<>> THEN resetUploadStatus(u) ELSE u
    /\ UNCHANGED <<handlerVars, viewer, adminUi, card, grid>>

\* A click on the upload button, shown while files are selected and disabled
\* while isLoading: handleFileUpload up to its first await. isLoading is set
\* and resetUploadStatus() then clears it again.
handleFileUpload ==
    /\ uploadUi.selectedFiles # <<>>
    /\ ~uploadUi.isLoading
    /\ uploadUi.started < MaxBatches
    /\ LET u1 == [uploadUi EXCEPT !.isLoading = TRUE]
           u2 == resetUploadStatus(u1)
       IN uploadUi' = [u2 EXCEPT
              !.overallUploadMessage = "uploading",
              !.batches = Append(@, [files |-> uploadUi.selectedFiles, i |-> 1,
                                      successCount |-> 0, errorCount |-> 0]),
              !.started = @ + 1]
    /\ UNCHANGED <<handlerVars, viewer, adminUi, card, grid>>

\* The POST of a batch's current file is answered (ok, or an error response
\* or a failed fetch): the next file is posted, or the batch ends.
handleFileUploadResponse ==
    /\ \E b \in 1..Len(uploadUi.batches), ok \in BOOLEAN :
          LET batch == uploadUi.batches[b]
              successCount == batch.successCount + (IF ok THEN 1 ELSE 0)
              errorCount == batch.errorCount + (IF ok THEN 0 ELSE 1)
          IN IF batch.i < Len(batch.files)
             THEN uploadUi' = [uploadUi EXCEPT
                     !.batches[b] = [batch EXCEPT !.i = @ + 1,
                                                  !.successCount = successCount,
                                                  !.errorCount = errorCount]]
             ELSE uploadUi' = [uploadUi EXCEPT
                     !.batches = RemoveAt(@, b),
                     !.isLoading = FALSE,
                     !.overallUploadMessage =
                         IF errorCount = 0 THEN "success"
                         ELSE IF successCount = 0 THEN "failed" ELSE "partial",
                     !.selectedFiles = IF errorCount = 0 THEN <<>> ELSE @]
    /\ UNCHANGED <<handlerVars, viewer, adminUi, card, grid>>

NextUploadUi ==
    \/ handleFileSelect
    \/ handleDrop
    \/ removeFile
    \/ handleFileUpload
    \/ handleFileUploadResponse

SpecUploadUi == InitPages /\ [][NextUploadUi]_vars

\* ---------------------------------------------------------- the photo page

\* zoomLevel is kept in hundredths: 100 is the scale 1, a step of 0.25 is 25.
Min(a, b) == IF a < b THEN a ELSE b
Max(a, b) == IF a > b THEN a ELSE b

\* The offset is cleared when the image is not zoomed after a zoom step.
ClearPanUnlessZoomed(v) ==
    IF ~v.isZoomed THEN [v EXCEPT !.translateX = 0, !.translateY = 0] ELSE v

\* zoomIn without the upper limit.
zoomInUnbounded(v) ==
    LET z == v.zoomLevel + 25
    IN ClearPanUnlessZoomed([v EXCEPT !.zoomLevel = z, !.isZoomed = z > 100])

zoomIn(v) ==
    LET z == Min(v.zoomLevel + 25, 300)
    IN ClearPanUnlessZoomed([v EXCEPT !.zoomLevel = z, !.isZoomed = z > 100])

zoomOut(v) ==
    LET z == Max(v.zoomLevel - 25, 50)
    IN ClearPanUnlessZoomed([v EXCEPT !.zoomLevel = z, !.isZoomed = z > 100])

resetZoom(v) ==
    [v EXCEPT !.zoomLevel = 100, !.isZoomed = FALSE, !.translateX = 0, !.translateY = 0]

\* goto('/'): the browser leaves the photo page.
goBack(v) == [v EXCEPT !.page = "home"]

\* The window's keydown listener.
handleKeydown(v, key) ==
    IF key = "Escape" THEN (IF v.isZoomed THEN resetZoom(v) ELSE goBack(v))
    ELSE IF key \in {"+", "="} THEN zoomIn(v)
    ELSE IF key = "-" THEN zoomOut(v)
    ELSE IF key = "0" THEN resetZoom(v)
    ELSE v

\* The keydown handler of the preview overlay.
overlayKeydown(v, key) ==
    IF key \in {"Escape", "Enter", " "}
    THEN (IF v.isZoomed THEN resetZoom(v) ELSE goBack(v))
    ELSE v

\* handleMouseDown and handleTouchStart after their guards.
startDrag(v, x, y) ==
    [v EXCEPT !.isDragging = TRUE, !.startX = x - v.translateX, !.startY = y - v.translateY]

\* handleMouseMove, and handleTouchMove for one touch.
moveDrag(v, x, y) ==
    IF ~v.isDragging THEN v
    ELSE [v EXCEPT !.translateX = x - v.startX, !.translateY = y - v.startY]

Keys == {"Escape", "+", "=", "-", "0", "Enter", " ", "a"}
Coords == 0..MaxPan
\* The offset a step leaves is within the range the model follows.
InPanRange(v) ==
    /\ v.translateX \in (0 - MaxPan)..MaxPan
    /\ v.translateY \in (0 - MaxPan)..MaxPan

\* The page records the event it handled and whether the image was zoomed.
Handled(v, event) == [v EXCEPT !.event = event, !.wasZoomed = viewer.isZoomed]

\* A key is pressed: the overlay's handler runs when the overlay has the
\* focus, then the event reaches the window's listener.
ViewerKeydown ==
    /\ viewer.page = "photo"
    /\ \E key \in Keys :
          LET v1 == IF viewer.focus = "overlay" THEN overlayKeydown(viewer, key) ELSE viewer
              v2 == handleKeydown(v1, key)
          IN viewer' = Handled(v2, IF key = "Escape" THEN "Escape" ELSE "key")
    /\ UNCHANGED <<handlerVars, uploadUi, adminUi, card, grid>>

\* The overlay gets or loses the keyboard focus.
ViewerFocus ==
    /\ viewer.page = "photo"
    /\ \E f \in {"body", "overlay"} :
          /\ f # viewer.focus
          /\ viewer' = Handled([viewer EXCEPT !.focus = f], "focus")
    /\ UNCHANGED <<handlerVars, uploadUi, adminUi, card, grid>>

\* A click on the overlay outside the image: on:click={isZoomed ? null : goBack}.
ViewerOverlayClick ==
    /\ viewer.page = "photo"
    /\ viewer' = Handled(IF viewer.isZoomed THEN viewer ELSE goBack(viewer), "click")
    /\ UNCHANGED <<handlerVars, uploadUi, adminUi, card, grid>>

handleWheel ==
    /\ viewer.page = "photo"
    /\ \E up \in BOOLEAN :
          viewer' = Handled(IF up THEN zoomIn(viewer) ELSE zoomOut(viewer), "wheel")
    /\ UNCHANGED <<handlerVars, uploadUi, adminUi, card, grid>>

\* mousedown on the image area; onIndicator: the target is within the zoom
\* indicator or the EXIF display.
handleMouseDown ==
    /\ viewer.page = "photo"
    /\ \E x \in Coords, y \in Coords, onIndicator \in BOOLEAN :
          viewer' = Handled(IF ~viewer.isZoomed \/ onIndicator THEN viewer
                            ELSE startDrag(viewer, x, y), "mousedown")
    /\ UNCHANGED <<handlerVars, uploadUi, adminUi, card, grid>>

handleMouseMove ==
    /\ viewer.page = "photo"
    /\ \E x \in Coords, y \in Coords :
          /\ InPanRange(moveDrag(viewer, x, y))
          /\ viewer' = Handled(moveDrag(viewer, x, y), "mousemove")
    /\ UNCHANGED <<handlerVars, uploadUi, adminUi, card, grid>>

\* mouseup on the window, or mouseleave of the image area while dragging.
handleMouseUp ==
    /\ viewer.page = "photo"
    /\ viewer' = Handled([viewer EXCEPT !.isDragging = FALSE], "mouseup")
    /\ UNCHANGED <<handlerVars, uploadUi, adminUi, card, grid>>

handleTouchStart ==
    /\ viewer.page = "photo"
    /\ \E x \in Coords, y \in Coords, touches \in 1..2, onIndicator \in BOOLEAN :
          viewer' = Handled(IF ~viewer.isZoomed \/ touches # 1 \/ onIndicator THEN viewer
                            ELSE startDrag(viewer, x, y), "touchstart")
    /\ UNCHANGED <<handlerVars, uploadUi, adminUi, card, grid>>

\* touchmove: the handler is on the image area and on the window, and runs
\* for both.
handleTouchMove ==
    /\ viewer.page = "photo"
    /\ \E x \in Coords, y \in Coords, touches \in 1..2 :
          LET once == IF touches # 1 THEN viewer ELSE moveDrag(viewer, x, y)
              twice == IF touches # 1 THEN once ELSE moveDrag(once, x, y)
          IN /\ InPanRange(twice)
             /\ viewer' = Handled(twice, "touchmove")
    /\ UNCHANGED <<handlerVars, uploadUi, adminUi, card, grid>>

handleTouchEnd ==
    /\ viewer.page = "photo"
    /\ viewer' = Handled([viewer EXCEPT !.isDragging = FALSE], "touchend")
    /\ UNCHANGED <<handlerVars, uploadUi, adminUi, card, grid>>

NextViewer ==
    \/ ViewerKeydown
    \/ ViewerFocus
    \/ ViewerOverlayClick
    \/ handleWheel
    \/ handleMouseDown
    \/ handleMouseMove
    \/ handleMouseUp
    \/ handleTouchStart
    \/ handleTouchMove
    \/ handleTouchEnd

SpecViewer == InitPages /\ [][NextViewer]_vars

\* ---------------------------------------------------------- the admin page

\* A key is named by its place in alphabetical order; 0 stands for null.
AdminKeys == 1..MaxAdminKeys

\* Insertion of a key into a list sorted by localeCompare.
RECURSIVE InsertSorted(_, _)
InsertSorted(list, k) ==
    IF list = <<>> THEN <<k>>
    ELSE IF k <= Head(list) THEN <<k>> \o list
    ELSE <<Head(list)>> \o InsertSorted(Tail(list), k)

\* data.sort((a, b) => a.key.localeCompare(b.key)).
RECURSIVE SortKeys(_)
SortKeys(data) ==
    IF data = <<>> THEN <<>> ELSE InsertSorted(SortKeys(Tail(data)), Head(data))

\* photoList.filter(photo => photo.key !== keyToDelete).
RECURSIVE WithoutKey(_, _)
WithoutKey(list, k) ==
    IF list = <<>> THEN <<>>
    ELSE IF Head(list) = k THEN WithoutKey(Tail(list), k)
    ELSE <<Head(list)>> \o WithoutKey(Tail(list), k)

\* The arrays GET /api/list is answered with (the handler does not
\* deduplicate; the bucket's keys are distinct, so are the pairs used).
AdminLists200 ==
    {<<>>} \cup {<<k>> : k \in AdminKeys}
           \cup {<<j, k>> : j \in AdminKeys, k \in AdminKeys}

\* fetchPhotoList() up to its await: called after the admin check, by the
\* refresh button and on every uploadSuccess event.
fetchPhotoList ==
    /\ adminUi.sent < MaxAdminRequests
    /\ adminUi' = [adminUi EXCEPT !.listLoading = TRUE, !.listError = FALSE,
                                  !.deleteError = FALSE, !.listing = @ + 1,
                                  !.sent = @ + 1]
    /\ UNCHANGED <<handlerVars, uploadUi, viewer, card, grid>>

\* GET /api/list is answered: the sorted list, or the error and no list.
fetchPhotoListResponse ==
    /\ adminUi.listing > 0
    /\ \/ \E data \in {d \in AdminLists200 : Len(d) < 2 \/ d[1] # d[2]} :
             adminUi' = [adminUi EXCEPT !.photoList = SortKeys(data),
                                       !.listLoading = FALSE, !.listing = @ - 1]
       \/ adminUi' = [adminUi EXCEPT !.photoList = <<>>, !.listError = TRUE,
                                     !.listLoading = FALSE, !.listing = @ - 1]
    /\ UNCHANGED <<handlerVars, uploadUi, viewer, card, grid>>

\* A click on the Delete button of a listed key, confirmed: handleDelete up
\* to its await. The button is there while the list is shown and is
\* disabled for the key that deletingKey names.
handleDelete ==
    /\ adminUi.sent < MaxAdminRequests
    /\ ~adminUi.listLoading /\ ~adminUi.listError
    /\ \E i \in 1..Len(adminUi.photoList) :
          LET keyToDelete == adminUi.photoList[i]
          IN /\ adminUi.deletingKey # keyToDelete
             /\ adminUi' = [adminUi EXCEPT !.deletingKey = keyToDelete,
                                           !.deleteError = FALSE,
                                           !.inFlight = Append(@, keyToDelete),
                                           !.sent = @ + 1]
    /\ UNCHANGED <<handlerVars, uploadUi, viewer, card, grid>>

\* A DELETE is answered, or its fetch fails.
handleDeleteResponse ==
    /\ \E i \in 1..Len(adminUi.inFlight), ok \in BOOLEAN :
          LET keyToDelete == adminUi.inFlight[i]
          IN adminUi' = [adminUi EXCEPT
                 !.photoList = IF ok THEN WithoutKey(@, keyToDelete) ELSE @,
                 !.deleteError = IF ok THEN @ ELSE TRUE,
                 !.deletingKey = 0,
                 !.inFlight = RemoveAt(@, i)]
    /\ UNCHANGED <<handlerVars, uploadUi, viewer, card, grid>>

NextAdminUi ==
    \/ fetchPhotoList
    \/ fetchPhotoListResponse
    \/ handleDelete
    \/ handleDeleteResponse

\* The page starts after checkAdminStatus() has found isAdmin true.
SpecAdminUi == InitPages /\ [][NextAdminUi]_vars

\* ----------------------------------------------------------- the PhotoCards

Cards == 1..MaxCards
CardKeys == {"k1", "k2"}

\* The image is taken from the cache: src, isLoaded, isLoading.
ShowCached(c) == [c EXCEPT !.src = "cache", !.isLoaded = TRUE, !.isLoading = FALSE]

\* The callback a card subscribed to imageCacheStore, run at every set.
cacheSubscriber(c, cache) ==
    IF c.mounted /\ c.key \in cache /\ ~c.isLoaded THEN ShowCached(c) ELSE c

\* The cards are created, each for a key; keys may be in imageCacheStore
\* from cards shown before.
InitCard ==
    /\ NoRequests
    /\ uploadUi = NoUploadUi
    /\ viewer = NoViewer
    /\ adminUi = NoAdminUi
    /\ \E keys \in [Cards -> CardKeys], cache \in {{}, {"k1"}} :
          card = [cards |-> [i \in Cards |-> [NoCard EXCEPT !.key = keys[i]]],
                  cache |-> cache]
    /\ grid = NoGrid

\* onMount: the cached image is shown, or lazyLoad starts observing.
CardMount(i) ==
    /\ ~card.cards[i].mounted
    /\ LET cached == card.cards[i].key \in card.cache
           c == [card.cards[i] EXCEPT !.mounted = TRUE, !.cachedAtMount = cached]
       IN card' = [card EXCEPT !.cards[i] =
                      IF cached THEN ShowCached(c) ELSE [c EXCEPT !.observed = TRUE]]
    /\ UNCHANGED <<handlerVars, uploadUi, viewer, adminUi, grid>>

\* The IntersectionObserver's callback for one entry.
CardIntersect(i) ==
    /\ card.cards[i].observed
    /\ \E isIntersecting \in BOOLEAN :
          LET c == card.cards[i]
          IN IF ~(isIntersecting /\ ~c.isLoaded) THEN card' = card
             ELSE IF c.key \in card.cache
             THEN card' = [card EXCEPT !.cards[i] = [ShowCached(c) EXCEPT !.observed = FALSE]]
             ELSE /\ c.fetches < MaxFetches
                  /\ card' = [card EXCEPT !.cards[i] =
                                 [c EXCEPT !.fetching = @ + 1, !.fetches = @ + 1]]
    /\ UNCHANGED <<handlerVars, uploadUi, viewer, adminUi, grid>>

\* A fetch of a card's image settles: the blob is cached and the store is
\* set (every card's subscriber runs), then the image is shown; or the
\* error image is.
CardFetchSettled(i) ==
    /\ card.cards[i].fetching > 0
    /\ \E ok \in BOOLEAN :
          IF ok
          THEN LET cache == card.cache \cup {card.cards[i].key}
                   seen == [j \in Cards |-> cacheSubscriber(card.cards[j], cache)]
               IN card' = [cards |-> [seen EXCEPT ![i] =
                                        [seen[i] EXCEPT !.src = "blob", !.isLoaded = TRUE,
                                                        !.observed = FALSE,
                                                        !.fetching = @ - 1]],
                           cache |-> cache]
          ELSE card' = [card EXCEPT !.cards[i] =
                           [card.cards[i] EXCEPT !.src = "error", !.isLoading = FALSE,
                                                 !.observed = FALSE, !.fetching = @ - 1]]
    /\ UNCHANGED <<handlerVars, uploadUi, viewer, adminUi, grid>>

\* The img element's load event.
handleImageLoad(i) ==
    /\ card.cards[i].src # ""
    /\ card' = [card EXCEPT !.cards[i].isLoading = FALSE]
    /\ UNCHANGED <<handlerVars, uploadUi, viewer, adminUi, grid>>

NextCard ==
    \E i \in Cards :
        \/ CardMount(i)
        \/ CardIntersect(i)
        \/ CardFetchSettled(i)
        \/ handleImageLoad(i)

SpecCard == InitCard /\ [][NextCard]_vars

\* ------------------------------------------------------------ the PhotoGrid

\* loadMorePhotos() on an instance.
loadMorePhotos(g) ==
    IF g.allLoaded \/ g.photos = <<>> THEN g
    ELSE LET endIndex == Min(g.currentIndex + batchSize, Len(g.photos))
         IN [g EXCEPT !.visiblePhotos = @ \o SubSeq(g.photos, g.currentIndex + 1, endIndex),
                      !.currentIndex = endIndex,
                      !.allLoaded = endIndex >= Len(g.photos),
                      !.revealed = endIndex - g.currentIndex,
                      !.loading = FALSE]

\* The callback the instance subscribed to photoStore.
storeSubscriber(g, data) ==
    LET h == [g EXCEPT !.photos = data.photos, !.storeLoaded = data.loaded]
    IN IF h.storeLoaded /\ h.photos # <<>> /\ h.visiblePhotos = <<>>
       THEN loadMorePhotos(h) ELSE h

\* The arrays GET /api/list is answered with over a session in which photos
\* are uploaded and deleted.
GridLists ==
    { <<>>, <<"k1", "k2", "k3">>, <<"k2", "k3", "k4", "k5">> }

\* The grid is created and mounted: it subscribes to photoStore (the
\* callback runs at once), then onMount fetches the list when the store is
\* not loaded, or reveals the first batch.
GridMount ==
    /\ ~grid.inst.mounted
    /\ grid.mounts < MaxMounts
    /\ LET id == grid.mounts + 1
           g0 == [NoGridInstance EXCEPT !.id = id, !.mounted = TRUE]
           g1 == storeSubscriber(g0, grid.store)
       IN IF ~g1.storeLoaded
          THEN grid' = [grid EXCEPT !.inst = [g1 EXCEPT !.loading = TRUE],
                                    !.requests = Append(@, id),
                                    !.mounts = id,
                                    !.sentWhileLoaded = @ \/ grid.store.loaded]
          ELSE grid' = [grid EXCEPT !.inst = IF g1.visiblePhotos = <<>>
                                             THEN loadMorePhotos(g1) ELSE g1,
                                    !.mounts = id]
    /\ UNCHANGED <<handlerVars, uploadUi, viewer, adminUi, card>>

\* The browser leaves the page of the grid; a list request in flight goes on.
GridDestroy ==
    /\ grid.inst.mounted
    /\ grid' = [grid EXCEPT !.inst = NoGridInstance]
    /\ UNCHANGED <<handlerVars, uploadUi, viewer, adminUi, card>>

\* A scroll event; near: the container's bottom is within the threshold.
handleScroll ==
    /\ grid.inst.mounted
    /\ \E near \in BOOLEAN :
          grid' = [grid EXCEPT !.inst =
                      IF grid.inst.loading \/ grid.inst.allLoaded \/ ~near THEN @
                      ELSE loadMorePhotos(@)]
    /\ UNCHANGED <<handlerVars, uploadUi, viewer, adminUi, card>>

\* A list request of fetchImages() is answered: photoStore is set (the
\* subscriber of the instance on the page runs) and the requesting
\* instance's loading is cleared; or the request fails.
fetchImagesResponse ==
    /\ \E r \in 1..Len(grid.requests) :
          LET own == grid.inst.mounted /\ grid.inst.id = grid.requests[r]
              rest == RemoveAt(grid.requests, r)
          IN \/ \E fetchedPhotos \in GridLists :
                  LET data == [photos |-> fetchedPhotos, loaded |-> TRUE]
                      g1 == IF grid.inst.mounted THEN storeSubscriber(grid.inst, data)
                            ELSE grid.inst
                  IN grid' = [grid EXCEPT
                         !.store = data,
                         !.inst = IF own THEN [g1 EXCEPT !.loading = FALSE] ELSE g1,
                         !.requests = rest,
                         !.sets = Min(@ + 1, 2),
                         !.first = IF grid.sets = 0 THEN fetchedPhotos ELSE @]
             \/ grid' = [grid EXCEPT
                    !.inst = IF own THEN [@ EXCEPT !.loading = FALSE] ELSE @,
                    !.requests = rest]
    /\ UNCHANGED <<handlerVars, uploadUi, viewer, adminUi, card>>

NextGrid ==
    \/ GridMount
    \/ GridDestroy
    \/ handleScroll
    \/ fetchImagesResponse

SpecGrid == InitPages /\ [][NextGrid]_vars

\* ------------------------------------------------------------------ claims

IsWhiteSpace(c) == c \in {" ", "\t", "\n"}

\* t, with the white space at its two ends taken off, is s.
TrimsTo(t, s) ==
    \E a \in 0..Len(t) :
        /\ \A i \in 1..a : IsWhiteSpace(t[i])
        /\ \E b \in 0..(Len(t) - a) :
            /\ \A i \in (Len(t) - b + 1)..Len(t) : IsWhiteSpace(t[i])
            /\ SubSeq(t, a + 1, Len(t) - b) = s
            /\ \/ a + b = Len(t)
               \/ ~IsWhiteSpace(t[a + 1]) /\ ~IsWhiteSpace(t[Len(t) - b])

\* ip is one of the comma-separated tokens of list, each taken trimmed: some
\* stretch of list that holds no comma and reaches from a comma (or the start)
\* to a comma (or the end) trims to ip.
Listed(ip, list) ==
    \E lo \in 1..(Len(list) + 1) :
        /\ lo = 1 \/ list[lo - 1] = ","
        /\ \E hi \in (lo - 1)..Len(list) :
            /\ hi = Len(list) \/ list[hi + 1] = ","
            /\ \A i \in lo..hi : list[i] # ","
            /\ TrimsTo(SubSeq(list, lo, hi), ip)

\* The caller the claims call an admin.
IsAdminCaller(ip, list) ==
    /\ ip.set
    /\ ip.val # <<>>
    /\ list.set
    /\ Listed(ip.val, list.val)

\* C1: the gate of upload and of delete answers true exactly when the
\* cf-connecting-ip header is present and not empty, ADMIN_IP_LIST is set and
\* the header value is one of its comma-separated tokens, each trimmed.
C1_AdminGate ==
    gate.done =>
        /\ gate.upload = IsAdminCaller(gate.ip, gate.list)
        /\ gate.delete = IsAdminCaller(gate.ip, gate.list)

\* A caller listed only thanks to the trim ("a, b" lists "b") passes both gates.
C1_Witness ==
    /\ gate.done
    /\ gate.ip = Some(<<"b">>)
    /\ gate.list = Some(<<"a", ",", " ", "b">>)
    /\ gate.upload
    /\ gate.delete

\* The caller of the request the latest step answered is an admin.
AdminCaller == IsAdminCaller(last.ip, env.ADMIN_IP_LIST)

AllowedTypes == {"image/jpeg", "image/png", "image/webp"}
TenMiB == 10 * 1024 * 1024

\* The one store call of the answered request, when it made exactly one.
OnlyCall(op) == Len(last.calls) = 1 /\ last.calls[1].op = op

C3_SizeBoundary ==
    (/\ last.op = "upload"
     /\ AdminCaller
     /\ last.file.provided
     /\ last.file.type \in AllowedTypes
     /\ env.PHOTOS) =>
        /\ last.file.size = TenMiB =>
            /\ OnlyCall("put")
            /\ IF last.calls[1].threw
               THEN last.resp.status = 500 /\ ~last.mutated
               ELSE /\ last.resp.status = 200
                    /\ last.resp.key \in DOMAIN store
                    /\ store[last.resp.key] =
                         [body |-> last.file.body, contentType |-> last.file.type]
        /\ last.file.size = TenMiB + 1 =>
            /\ last.resp = UploadTooLarge
            /\ last.resp.status = 400
            /\ last.calls = <<>>
            /\ ~last.mutated

\* A file of exactly 10 MiB has been stored and answered 200.
C3_Witness ==
    /\ last.op = "upload"
    /\ last.file.size = TenMiB
    /\ last.resp.status = 200
    /\ last.resp.key \in DOMAIN store
    /\ last.mutated

\* C4: an admin's upload of a file whose declared type is not JPEG, PNG or
\* WebP is answered with a client error and nothing is stored, at every size.
C4_BadTypeRejected ==
    (/\ last.op = "upload"
     /\ AdminCaller
     /\ last.file.provided
     /\ last.file.type \notin AllowedTypes) =>
        /\ last.resp.status = 400
        /\ last.calls = <<>>
        /\ ~last.mutated

\* A file of a disallowed type and of a size within the limit is turned down
\* for its type.
C4_Witness ==
    /\ last.op = "upload"
    /\ AdminCaller
    /\ last.file.provided
    /\ last.file.type = "image/gif"
    /\ last.file.size = TenMiB
    /\ last.resp = UploadBadType
    /\ DOMAIN store # {}

\* C5: once an upload has been answered 200 with key k, and while no delete
\* of k has happened, a fetch of k makes one get call and, when that call
\* returns, is answered 200 with the uploaded bytes and the declared type as
\* Content-Type (500 when get throws).
C5_RoundTrip ==
    (/\ last.op = "get"
     /\ last.key \in DOMAIN uploaded
     /\ Count(okDeletes, last.key) = 0) =>
        /\ OnlyCall("get")
        /\ IF last.calls[1].threw
           THEN last.resp.status = 500
           ELSE /\ last.resp.status = 200
                /\ last.resp.data = uploaded[last.key].body
                /\ last.resp.ctype = uploaded[last.key].type

\* Two objects of different bytes and types are stored and the fetch of one
\* returns its own.
C5_Witness ==
    /\ last.op = "get"
    /\ last.resp.status = 200
    /\ Cardinality(DOMAIN store) = 2
    /\ \E k \in DOMAIN store :
        /\ k # last.key
        /\ store[k].body # last.resp.data
        /\ store[k].contentType # last.resp.ctype
    /\ last.resp.data = uploaded[last.key].body
    /\ last.resp.ctype = uploaded[last.key].type

\* C6: with requests handled one at a time, an admin's DELETE of a key that
\* is Absent is never answered 200; with the bucket bound and a key in the
\* path it makes one head call and, when head returns, is answered 404 (500
\* when head throws). A DELETE answered 200 leaves its key Absent, so the
\* next DELETE of that key is answered 404.
C6_DeleteAbsent ==
    /\ (last.op = "delete" /\ AdminCaller /\ ~last.wasPresent) =>
        /\ last.resp.status # 200
        /\ ~last.mutated
        /\ (env.PHOTOS /\ last.key # <<>>) =>
            /\ OnlyCall("head")
            /\ IF last.calls[1].threw
               THEN last.resp.status = 500
               ELSE last.resp = DeleteNotFound(last.key) /\ last.resp.status = 404
    /\ (last.op = "delete" /\ last.resp.status = 200) =>
        /\ last.wasPresent
        /\ last.key \notin DOMAIN store
    /\ \A k \in DOMAIN okDeletes : okDeletes[k] >= 1 => k \notin DOMAIN store

\* The second DELETE of a key, after the first was answered 200, is answered 404.
C6_Witness ==
    /\ last.op = "delete"
    /\ AdminCaller
    /\ Count(okDeletes, last.key) = 1
    /\ last.resp.status = 404
    /\ last.resp = DeleteNotFound(last.key)

\* C7: for every key, the DELETE requests answered 200 are no more than the
\* times the key became Present, under every interleaving of the handlers.
C7_AtomicDelete ==
    \A k \in DOMAIN okDeletes : okDeletes[k] <= Count(everPut, k)

\* C8: a DELETE by a caller who is not an admin is answered 403, makes no
\* store call, changes nothing in the bucket, and a key that was Present is
\* still Present.
C8_NonAdminDelete ==
    (last.op = "delete" /\ ~AdminCaller) =>
        /\ last.resp.status = 403
        /\ last.calls = <<>>
        /\ ~last.mutated
        /\ last.wasPresent => last.key \in DOMAIN store

\* A caller who is not an admin asks for the deletion of a Present key.
C8_Witness ==
    /\ last.op = "delete"
    /\ ~AdminCaller
    /\ last.wasPresent
    /\ last.key \in DOMAIN store
    /\ last.resp.status = 403

\* C9: an upload answered 403 or 400 made no store call and changed nothing
\* in the bucket.
C9_RejectedUploadTouchesNothing ==
    (last.op = "upload" /\ last.resp.status \in {400, 403}) =>
        /\ last.calls = <<>>
        /\ ~last.mutated

\* An upload is turned down with a 400 while the bucket holds an object and
\* another request is suspended at its store call.
C9_Witness ==
    /\ last.op = "upload"
    /\ last.resp.status = 400
    /\ DOMAIN store # {}
    /\ \E p \in Procs : pc[p] \in {"upload_put", "delete_delete"}

\* C10: the answer to a DELETE by a caller who is not an admin is one fixed
\* response (status and body), the same whatever the bucket holds, whatever
\* the key is (empty or not, Present or not) and whether or not the bucket is
\* bound: two runs that differ only in these get the same answer.
C10_NonAdminDeleteSameAnswer ==
    (last.op = "delete" /\ ~AdminCaller) =>
        last.resp =
            [status |-> 403,
             body |-> <<"Forbidden: You are not authorized to delete files.">>,
             key |-> <<>>, data |-> "", ctype |-> ""]

\* The fixed answer is given for an empty key with the bucket not bound.
C10_Witness ==
    /\ last.op = "delete"
    /\ ~AdminCaller
    /\ ~env.PHOTOS
    /\ last.key = <<>>
    /\ last.resp.status = 403

\* C11: GET /api/list with the bucket bound and no object stored makes one
\* list call and, when it returns, is answered 200 with the empty array; it
\* is never answered with the configuration error, and with 500 only when
\* the list call itself throws.
C11_EmptyList ==
    (last.op = "list" /\ env.PHOTOS /\ DOMAIN store = {}) =>
        /\ OnlyCall("list")
        /\ last.resp # ListConfigError
        /\ last.keys = <<>>
        /\ IF last.calls[1].threw
           THEN last.resp.status = 500
           ELSE last.resp = ListOk /\ last.resp.status = 200

\* The list of an empty bucket is answered 200 with [].
C11_Witness ==
    /\ last.op = "list"
    /\ env.PHOTOS
    /\ DOMAIN store = {}
    /\ OnlyCall("list")
    /\ ~last.calls[1].threw
    /\ last.resp.status = 200
    /\ last.keys = <<>>

\* C12: whenever GET /api/list is answered 200, the array holds exactly one
\* {key} record for every object Present in the bucket, whatever the number
\* of objects, also when the list call reports its result as truncated.
C12_ListsEveryKey ==
    (last.op = "list" /\ last.resp.status = 200) =>
        /\ {last.keys[i].key : i \in 1..Len(last.keys)} = DOMAIN store
        /\ Len(last.keys) = Cardinality(DOMAIN store)

\* C13: GET /api/{key} with the bucket bound makes one get call; it is
\* answered 404 exactly when get returned no object for the key and 500
\* exactly when get threw, and a key that is Present is never answered 404.
C13_NotFoundVersusFailure ==
    (last.op = "get" /\ env.PHOTOS) =>
        /\ OnlyCall("get")
        /\ last.resp.status = 404 <=> (~last.calls[1].threw /\ ~last.wasPresent)
        /\ last.resp.status = 500 <=> last.calls[1].threw
        /\ last.wasPresent => last.resp.status # 404
        /\ last.resp.status \in {200, 404, 500}

\* A get of a stored key fails in the store and is answered 500, not 404.
C13_Witness ==
    /\ last.op = "get"
    /\ env.PHOTOS
    /\ last.wasPresent
    /\ OnlyCall("get")
    /\ last.calls[1].threw
    /\ last.resp.status = 500

\* The part of a generated key after the UUID.
KeySuffix(key) == SubSeq(key, 2, Len(key))

IsAlphaNum(e) == e # <<>> /\ \A i \in 1..Len(e) : e[i] \in AlphaNum

\* e is the text at the end of name.
EndsWith(name, e) ==
    Len(e) <= Len(name) /\ SubSeq(name, Len(name) - Len(e) + 1, Len(name)) = e

\* C14: a generated key is the UUID alone or the UUID, a dot and a
\* non-empty run E of letters and digits; E is text from the end of the file
\* name and nothing else of the name is in the key.
C14_KeyShape ==
    keygen.done =>
        /\ keygen.key # <<>>
        /\ keygen.key[1] = randomUUID(keygen.n)
        /\ LET suffix == KeySuffix(keygen.key)
           IN \/ suffix = <<>>
              \/ /\ suffix[1] = "."
                 /\ IsAlphaNum(Tail(suffix))
                 /\ EndsWith(keygen.name, Tail(suffix))

\* A name with a path separator and two dots gives a key with the last
\* extension only.
C14_Witness ==
    /\ keygen.done
    /\ keygen.name = <<"/", ".", "a">>
    /\ keygen.key = <<randomUUID(keygen.n), ".", "a">>

\* C15: with the bucket bound, a DELETE from a non-admin is answered 403;
\* from an admin without a key 400; from an admin with a key it calls head:
\* head throwing gives 500, head returning null gives the 404 as it was
\* thrown, and otherwise it calls delete: delete throwing gives 500, delete
\* returning gives 200 with a message naming the key.
C15_DeleteOutcomes ==
    (last.op = "delete" /\ env.PHOTOS) =>
        /\ ~AdminCaller => last.resp = DeleteForbidden /\ last.resp.status = 403
        /\ (AdminCaller /\ last.key = <<>>) =>
               last.resp = DeleteMissingKey /\ last.resp.status = 400
        /\ (AdminCaller /\ last.key # <<>>) =>
            /\ Len(last.calls) \in {1, 2}
            /\ last.calls[1].op = "head"
            /\ IF last.calls[1].threw
               THEN Len(last.calls) = 1 /\ last.resp.status = 500
               ELSE IF Len(last.calls) = 1
               THEN /\ ~last.wasPresent
                    /\ last.resp = DeleteNotFound(last.key)
                    /\ last.resp.status = 404
               ELSE /\ last.calls[2].op = "delete"
                    /\ IF last.calls[2].threw
                       THEN last.resp.status = 500
                       ELSE /\ last.resp = DeleteOk(last.key)
                            /\ last.resp.status = 200
                            /\ last.resp.body = <<"File ">> \o last.key
                                                 \o <<" deleted successfully.">>

\* An admin's DELETE of a key that never existed: head returns null and the
\* 404 thrown in the try block is the answer.
C15_Witness ==
    /\ last.op = "delete"
    /\ env.PHOTOS
    /\ AdminCaller
    /\ last.key = GhostKey
    /\ OnlyCall("head")
    /\ ~last.calls[1].threw
    /\ last.resp.status = 404

\* C16: no step of any handler changes the body or the content type of a key
\* that stays Present, and an upload answered 200 adds exactly one object,
\* under the key it answers with, which was not Present before, with the
\* file's bytes and its declared type as content type.
C16_KeysImmutable ==
    [][/\ \A k \in DOMAIN store \cap DOMAIN store' : store'[k] = store[k]
       /\ (last'.op = "upload" /\ last'.resp.status = 200) =>
            /\ last'.resp.key \notin DOMAIN store
            /\ DOMAIN store' = DOMAIN store \cup {last'.resp.key}
            /\ store'[last'.resp.key].contentType = last'.file.type
            /\ store'[last'.resp.key].body = last'.file.body]_vars

\* A second upload is answered 200 and the bucket holds two objects.
C16_Witness ==
    /\ last.op = "upload"
    /\ last.resp.status = 200
    /\ Cardinality(DOMAIN store) = 2
    /\ last.resp.key \in DOMAIN store
    /\ store[last.resp.key].contentType = last.file.type

\* The request carries a cf-connecting-ip header with a value.
HeaderPresent == gate.ip.set /\ gate.ip.val # <<>>

\* C17: GET /api/ip is always answered 200 with {ip, isAdmin}; with the
\* cf-connecting-ip header present, ip is the header's value; without the
\* header the body is {ip: "unknown", isAdmin: false}.
C17_IpAnswer ==
    gate.asked =>
        /\ gate.answer.status = 200
        /\ HeaderPresent => gate.answer.ip = gate.ip.val
        /\ ~gate.ip.set => gate.answer.ip = Unknown /\ ~gate.answer.isAdmin

\* C19: for every header value and allowlist, the isAdmin that GET /api/ip
\* reports is the verdict of the admin gate of upload and of delete.
C19_SameVerdict ==
    (gate.asked /\ gate.done) =>
        /\ gate.answer.isAdmin = gate.upload
        /\ gate.answer.isAdmin = gate.delete

\* The file of the request passes the handler's checks of the file.
ValidFile ==
    last.file.provided /\ last.file.size <= TenMiB /\ last.file.type \in AllowedTypes

\* C18: without the bucket binding, GET /api/list, GET /api/{key}, an
\* admin's upload of a valid file and an admin's DELETE are each answered
\* with the 500 configuration error, never with a success or an empty list,
\* and no bucket operation is called.
C18_NoBucket ==
    ~env.PHOTOS =>
        /\ \A p \in Procs : calls[p] = <<>>
        /\ DOMAIN store = {}
        /\ last.calls = <<>>
        /\ last.op = "list" =>
               last.resp = ListConfigError /\ last.resp.status = 500 /\ last.keys = <<>>
        /\ last.op = "get" => last.resp = GetConfigError /\ last.resp.status = 500
        /\ (last.op = "upload" /\ AdminCaller /\ ValidFile) =>
               last.resp = UploadConfigError /\ last.resp.status = 500
        /\ (last.op = "delete" /\ AdminCaller) =>
               last.resp = DeleteConfigError /\ last.resp.status = 500

\* An admin's upload of a valid file meets the missing bucket.
C18_Witness ==
    /\ ~env.PHOTOS
    /\ last.op = "upload"
    /\ AdminCaller
    /\ ValidFile
    /\ last.resp = UploadConfigError
    /\ last.calls = <<>>

\* The positions of the dots of a file name, and the text after the last.
Dots(name) == {i \in 1..Len(name) : name[i] = "."}

AfterLastDot(name) ==
    LET d == CHOOSE i \in Dots(name) : \A j \in Dots(name) : j <= i
    IN SubSeq(name, d + 1, Len(name))

\* C20: what follows the UUID in the key is "." and E exactly when the file
\* name has a dot and the text E after its last dot is non-empty and
\* alphanumeric; for every other name, also one without any dot, nothing
\* follows the UUID.
C20_ExtensionOnlyAfterDot ==
    keygen.done =>
        KeySuffix(keygen.key) =
            IF Dots(keygen.name) # {} /\ IsAlphaNum(AfterLastDot(keygen.name))
            THEN <<".">> \o AfterLastDot(keygen.name)
            ELSE <<>>

\* The bucket call the answered request made last.
LastCall == last.calls[Len(last.calls)]

\* C21: in every handler, a value thrown by a bucket operation is caught by
\* the handler and answered by it with 500 and, when the value is an Error,
\* its message, whatever else the value carries; it is never left to the
\* framework.
C21_StoreErrorsCaught ==
    (last.calls # <<>> /\ LastCall.threw) =>
        /\ last.resp.status = 500
        /\ last.resp # UnexpectedError
        /\ LastCall.isError =>
               \E i \in 1..Len(last.resp.body) : last.resp.body[i] = LastCall.message

\* C22: a request makes each bucket call of its handler at most once: list
\* one list, fetch one get, upload one put, delete one head and then, only
\* after head returned an object, one delete; a request in flight has no
\* response yet and an answered one has a single response.
C22_NoRetry ==
    /\ \A p \in Procs :
          /\ pc[p] = "idle" <=> req[p] = NoReq
          /\ pc[p] = "idle" => calls[p] = <<>>
          /\ pc[p] \in {"upload_formData", "upload_put", "delete_head", "get_get",
                        "list_list"} => calls[p] = <<>>
          /\ pc[p] = "delete_delete" =>
                 /\ Len(calls[p]) = 1
                 /\ calls[p][1].op = "head" /\ calls[p][1].found
    /\ last.op # "none" => last.resp.status # 0
    /\ last.op = "list" => Len(last.calls) <= 1 /\ \A i \in 1..Len(last.calls) : last.calls[i].op = "list"
    /\ last.op = "get" => Len(last.calls) <= 1 /\ \A i \in 1..Len(last.calls) : last.calls[i].op = "get"
    /\ last.op = "upload" => Len(last.calls) <= 1 /\ \A i \in 1..Len(last.calls) : last.calls[i].op = "put"
    /\ last.op = "delete" =>
           /\ Len(last.calls) <= 2
           /\ Len(last.calls) >= 1 => last.calls[1].op = "head"
           /\ Len(last.calls) = 2 =>
                  /\ last.calls[1].found
                  /\ last.calls[2].op = "delete"
                  /\ last.calls[2].key = last.key

\* An admin's DELETE answered 200 after one head and one delete.
C22_Witness ==
    /\ last.op = "delete"
    /\ last.resp.status = 200
    /\ Len(last.calls) = 2
    /\ last.calls[1].op = "head"
    /\ last.calls[2].op = "delete"

\* C23: in the Upload component, while a batch is being posted isLoading is
\* true, so that the button and the file input are disabled and no second
\* batch runs beside it.
C23_LoadingWhileBatch ==
    /\ uploadUi.batches # <<>> => uploadUi.isLoading
    /\ Len(uploadUi.batches) <= 1

\* C24: on the photo page the pan offset is (0,0) whenever the image is not
\* zoomed (zoomLevel <= 1), and isDragging is true only while isZoomed is.
C24_PanOnlyWhenZoomed ==
    /\ viewer.zoomLevel <= 100 => viewer.translateX = 0 /\ viewer.translateY = 0
    /\ viewer.isDragging => viewer.isZoomed

\* C25: an Escape pressed while the image is zoomed resets the zoom and does
\* not leave the page; an Escape leads back to '/' only when the image was
\* not zoomed, whether or not the overlay has the focus.
C25_EscapeResetsFirst ==
    viewer.event = "Escape" =>
        /\ viewer.wasZoomed =>
              /\ viewer.page = "photo"
              /\ viewer.zoomLevel = 100
              /\ viewer.translateX = 0 /\ viewer.translateY = 0
        /\ viewer.page = "home" => ~viewer.wasZoomed

\* C30: zoomLevel is a multiple of 0.25 within [0.5, 3], zoomIn at 3 and
\* zoomOut at 0.5 leave it as it is, and isZoomed is true exactly when
\* zoomLevel > 1.
C30_ZoomLevels ==
    /\ viewer.zoomLevel % 25 = 0
    /\ viewer.zoomLevel >= 50 /\ viewer.zoomLevel <= 300
    /\ viewer.isZoomed <=> viewer.zoomLevel > 100
    /\ viewer.zoomLevel = 300 => zoomIn(viewer).zoomLevel = 300
    /\ viewer.zoomLevel = 50 => zoomOut(viewer).zoomLevel = 50

\* The wheel has zoomed the image in to the largest scale.
C30_Witness ==
    /\ viewer.event = "wheel"
    /\ viewer.zoomLevel = 300
    /\ viewer.isZoomed

\* C26: on the admin page, while a DELETE for a key is in flight deletingKey
\* is that key, so its button is disabled and no second DELETE for the key
\* is in flight, whatever the order of clicks and responses.
C26_DeletingKeyWhileInFlight ==
    /\ \A i \in 1..Len(adminUi.inFlight) : adminUi.deletingKey = adminUi.inFlight[i]
    /\ \A i, j \in 1..Len(adminUi.inFlight) :
          adminUi.inFlight[i] = adminUi.inFlight[j] => i = j

\* C27: a PhotoCard starts at most one fetch of its image, and none when
\* its key was in imageCacheStore at mount; intersection events after a
\* fetch has started, also while it is in flight, start no other.
C27_OneFetchPerCard ==
    \A i \in DOMAIN card.cards :
        /\ card.cards[i].fetches <= 1
        /\ card.cards[i].cachedAtMount => card.cards[i].fetches = 0

\* C28: in the grid on the page, visiblePhotos is the first currentIndex
\* elements of photos, a reveal adds at most batchSize photos, and allLoaded
\* is true only when currentIndex >= photos.length.
C28_VisibleIsPrefix ==
    grid.inst.mounted =>
        /\ grid.inst.currentIndex <= Len(grid.inst.photos)
        /\ grid.inst.visiblePhotos = SubSeq(grid.inst.photos, 1, grid.inst.currentIndex)
        /\ grid.inst.revealed <= batchSize
        /\ grid.inst.allLoaded => grid.inst.currentIndex >= Len(grid.inst.photos)

\* C29: the grid requests the list only while photoStore.loaded is false,
\* and once the store has been set to loaded, photoStore.photos stays the
\* value of that first successful fetch.
C29_ListFetchedOnce ==
    /\ ~grid.sentWhileLoaded
    /\ grid.sets >= 1 => grid.store.loaded /\ grid.store.photos = grid.first

====
